---- MODULE Spec2Model ----
(***************************************************************************)
(* cosmic-store: the metadata search, the installed listing and the        *)
(* selection resolver of src/main.rs, as a message-passing state machine.  *)
(*                                                                         *)
(* One coordinating thread applies one Message at a time (Application::    *)
(* update).  Slow work is a Command::perform unit: it captures clones of   *)
(* what it needs when it is dispatched, runs on the worker pool, and its   *)
(* one output message is queued for the coordinating thread.               *)
(*                                                                         *)
(* Strings are sequences of one-character strings (ASCII, so byte length   *)
(* = character count).  Option<T> is a sequence: <<>> is None, <<x>> is    *)
(* Some(x).                                                                *)
(***************************************************************************)
EXTENDS Integers, Sequences, FiniteSets, TLC

None == <<>>

Some(x) == <<x>>

IsSome(o) == o # <<>>

Unwrap(o) == o[1]

(***************************************************************************)
(* Bounds                                                                  *)
(***************************************************************************)
\* longest name, summary or query of the one-component stores (WeightSpec)
MaxLen == 2

\* most components the larger collection of the Metadata Store holds
MaxComponents == 2

\* most worker units in flight plus messages queued for the coordinator
MaxInFlight == 2

(***************************************************************************)
(* Characters and strings                                                  *)
(***************************************************************************)
Alphabet == {"a", "A", "."}

RECURSIVE StringsUpTo(_)
StringsUpTo(n) ==
    IF n = 0 THEN {<<>>}
    ELSE LET shorter == StringsUpTo(n - 1)
         IN  shorter \cup {Append(s, c) : s \in {t \in shorter : Len(t) = n - 1}, c \in Alphabet}

Str == StringsUpTo(MaxLen)

\* the ASCII code of a character (Rust compares chars and strs by code)
Ord(c) ==
    CASE c = "." -> 46
      [] c = "0" -> 48
      [] c = "1" -> 49
      [] c = "2" -> 50
      [] c = "A" -> 65
      [] c = "B" -> 66
      [] c = "a" -> 97
      [] c = "b" -> 98

IsDigit(c) == c \in {"0", "1", "2"}

DigitValue(c) == Ord(c) - 48

ToLower(c) ==
    CASE c = "A" -> "a"
      [] c = "B" -> "b"
      [] OTHER -> c

\* Ordering: "Less", "Equal", "Greater"
CmpInt(x, y) == IF x < y THEN "Less" ELSE IF x > y THEN "Greater" ELSE "Equal"

\* str::cmp: lexicographic by byte
RECURSIVE StrCmp(_, _)
StrCmp(s1, s2) ==
    IF s1 = <<>> /\ s2 = <<>> THEN "Equal"
    ELSE IF s1 = <<>> THEN "Less"
    ELSE IF s2 = <<>> THEN "Greater"
    ELSE IF Head(s1) # Head(s2) THEN CmpInt(Ord(Head(s1)), Ord(Head(s2)))
    ELSE StrCmp(Tail(s1), Tail(s2))

(***************************************************************************)
(* lexical_sort::natural_lexical_cmp, as main.rs uses it to order names:   *)
(* characters are compared case-insensitively, a run of ASCII digits is    *)
(* compared as a number, and names that are equal this way are ordered by  *)
(* str::cmp, so the order is total.                                        *)
(***************************************************************************)
RECURSIVE DigitRunLen(_)
DigitRunLen(s) ==
    IF s = <<>> \/ ~IsDigit(Head(s)) THEN 0 ELSE 1 + DigitRunLen(Tail(s))

RECURSIVE DigitsValue(_, _)
DigitsValue(s, acc) ==
    IF s = <<>> THEN acc ELSE DigitsValue(Tail(s), 10 * acc + DigitValue(Head(s)))

RECURSIVE NaturalLexicalWalk(_, _)
NaturalLexicalWalk(s1, s2) ==
    IF s1 = <<>> /\ s2 = <<>> THEN "Equal"
    ELSE IF s1 = <<>> THEN "Less"
    ELSE IF s2 = <<>> THEN "Greater"
    ELSE IF IsDigit(Head(s1)) /\ IsDigit(Head(s2))
         THEN LET n1 == DigitRunLen(s1)
                  n2 == DigitRunLen(s2)
                  c  == CmpInt(DigitsValue(SubSeq(s1, 1, n1), 0),
                               DigitsValue(SubSeq(s2, 1, n2), 0))
              IN  IF c # "Equal" THEN c
                  ELSE NaturalLexicalWalk(SubSeq(s1, n1 + 1, Len(s1)),
                                          SubSeq(s2, n2 + 1, Len(s2)))
    ELSE LET c == CmpInt(Ord(ToLower(Head(s1))), Ord(ToLower(Head(s2))))
         IN  IF c # "Equal" THEN c ELSE NaturalLexicalWalk(Tail(s1), Tail(s2))

natural_lexical_cmp(s1, s2) ==
    LET c == NaturalLexicalWalk(s1, s2)
    IN  IF c # "Equal" THEN c ELSE StrCmp(s1, s2)

(***************************************************************************)
(* regex: escape, RegexBuilder::case_insensitive(true).build, Regex::find  *)
(* A compiled regex is a sequence of atoms: [any |-> TRUE] for an          *)
(* unescaped dot, [any |-> FALSE, ch |-> c] for a literal.                 *)
(***************************************************************************)
MetaChars == {".", "\\"}

\* regex::escape: a backslash before every meta character
RECURSIVE escape(_)
escape(text) ==
    IF text = <<>> THEN <<>>
    ELSE (IF Head(text) \in MetaChars THEN <<"\\", Head(text)>> ELSE <<Head(text)>>)
         \o escape(Tail(text))

\* the parse of a pattern: Some(atoms), or None for a pattern that does not parse
\* (here: a backslash that escapes nothing)
RECURSIVE parse(_)
parse(pattern) ==
    IF pattern = <<>> THEN Some(<<>>)
    ELSE IF Head(pattern) = "\\"
         THEN IF Len(pattern) = 1 THEN None
              ELSE LET rest == parse(SubSeq(pattern, 3, Len(pattern)))
                   IN  IF rest = None THEN None
                       ELSE Some(<<[any |-> FALSE, ch |-> pattern[2]]>> \o Unwrap(rest))
    ELSE LET rest == parse(Tail(pattern))
             atom == IF Head(pattern) = "." THEN [any |-> TRUE, ch |-> "."]
                     ELSE [any |-> FALSE, ch |-> Head(pattern)]
         IN  IF rest = None THEN None ELSE Some(<<atom>> \o Unwrap(rest))

\* the builder's default size_limit on the compiled program (10 MiB in the crate),
\* scaled to a number of atoms larger than any name or query of the stores
SizeLimit == 4

\* RegexBuilder::build: Err for a pattern that does not parse or compiles too big
build(pattern) ==
    LET parsed == parse(pattern)
    IN  IF IsSome(parsed) /\ Len(Unwrap(parsed)) > SizeLimit THEN None ELSE parsed

\* case-insensitive match of one atom
AtomMatches(atom, c) == atom.any \/ ToLower(atom.ch) = ToLower(c)

MatchesAt(regex, text, start) ==
    /\ start + Len(regex) <= Len(text)
    /\ \A k \in 1..Len(regex) : AtomMatches(regex[k], text[start + k])

\* Regex::find: the leftmost match as Some([start, end)) (0-based, end exclusive)
find(regex, text) ==
    LET starts == {i \in 0..Len(text) : MatchesAt(regex, text, i)}
    IN  IF starts = {} THEN None
        ELSE LET first == CHOOSE i \in starts : \A j \in starts : i <= j
             IN  Some([start |-> first, end |-> first + Len(regex)])

(***************************************************************************)
(* appstream data: TranslatableString, Component, Collection               *)
(* A TranslatableString is a function from locale keys to strings; the     *)
(* key "default" holds the untranslated string.                            *)
(***************************************************************************)
Locales == {"en-US", "de"}

Tr(s) == [l \in {"default"} |-> s]

TrLocal(s, l, t) == [k \in {"default", l} |-> IF k = l THEN t ELSE s]

get_for_locale(translatable, locale) ==
    IF locale \in DOMAIN translatable THEN Some(translatable[locale]) ELSE None

get_default(translatable) ==
    IF "default" \in DOMAIN translatable THEN Some(translatable["default"]) ELSE None

\* get_translatable that prefers the default string to the one of the locale
get_translatable_default_first(translatable, locale) ==
    IF IsSome(get_default(translatable))
    THEN Unwrap(get_default(translatable))
    ELSE IF IsSome(get_for_locale(translatable, locale))
         THEN Unwrap(get_for_locale(translatable, locale))
         ELSE <<>>

get_translatable(translatable, locale) ==
    IF IsSome(get_for_locale(translatable, locale))
    THEN Unwrap(get_for_locale(translatable, locale))
    ELSE IF IsSome(get_default(translatable))
         THEN Unwrap(get_default(translatable))
         ELSE <<>>

Component(name, summary_opt) == [name |-> name, summary |-> summary_opt, icon |-> "icon"]

Collection(origin_opt, components) == [origin |-> origin_opt, components |-> components]

\* AppstreamCache::icon(origin, component): a handle for the component's icon
AppstreamCacheIcon(origin_opt, component) == <<origin_opt, component.icon>>

(***************************************************************************)
(* App::search, the body of the worker unit (main.rs 214-280)              *)
(***************************************************************************)
\* weight_opt with the end of the name match tested before its start
weight_opt_end_first(regex, name, summary) ==
    LET nm == find(regex, name)
        sm == find(regex, summary)
    IN  IF IsSome(nm)
        THEN IF Unwrap(nm).end = Len(name) THEN Some(0)
             ELSE IF Unwrap(nm).start = 0 THEN Some(1) ELSE Some(2)
        ELSE IF IsSome(sm)
             THEN IF Unwrap(sm).start = 0
                  THEN IF Unwrap(sm).end = Len(name) THEN Some(3) ELSE Some(4)
                  ELSE Some(5)
             ELSE None

\* the match on regex.find(name) / regex.find(summary), lines 225-257
weight_opt(regex, name, summary) ==
    LET nm == find(regex, name)
        sm == find(regex, summary)
    IN  IF IsSome(nm)
        THEN IF Unwrap(nm).start = 0
             THEN IF Unwrap(nm).end = Len(name) THEN Some(0) ELSE Some(1)
             ELSE Some(2)
        ELSE IF IsSome(sm)
             THEN IF Unwrap(sm).start = 0
                  THEN IF Unwrap(sm).end = Len(name) THEN Some(3) ELSE Some(4)
                  ELSE Some(5)
             ELSE None

ComponentName(component, locale) == get_translatable(component.name, locale)

\* component.summary.as_ref().map_or("", |x| get_translatable(x, &locale))
ComponentSummary(component, locale) ==
    IF IsSome(component.summary)
    THEN get_translatable(Unwrap(component.summary), locale)
    ELSE <<>>

\* lines 258-271: the SearchResult pushed for one component, if it matches
SearchResultOf(id, collection, component, locale, regex) ==
    LET name    == ComponentName(component, locale)
        summary == ComponentSummary(component, locale)
        w       == weight_opt(regex, name, summary)
    IN  IF IsSome(w)
        THEN <<[backend_name |-> "TODO",
                id           |-> id,
                icon         |-> AppstreamCacheIcon(collection.origin, component),
                name         |-> name,
                summary      |-> summary,
                collection   |-> collection,
                weight       |-> Unwrap(w)]>>
        ELSE <<>>

\* the inner loop, line 218
RECURSIVE ScanComponents(_, _, _, _, _)
ScanComponents(id, collection, k, locale, regex) ==
    IF k > Len(collection.components) THEN <<>>
    ELSE SearchResultOf(id, collection, collection.components[k], locale, regex)
         \o ScanComponents(id, collection, k + 1, locale, regex)

\* ScanCollections that stops after the first collection
ScanCollections_first(collections, order, locale, regex) ==
    IF order = <<>> THEN <<>>
    ELSE ScanComponents(Head(order), collections[Head(order)], 1, locale, regex)

\* the outer loop, line 217; `order` is the order collections.iter() yields the ids
RECURSIVE ScanCollections(_, _, _, _)
ScanCollections(collections, order, locale, regex) ==
    IF order = <<>> THEN <<>>
    ELSE ScanComponents(Head(order), collections[Head(order)], 1, locale, regex)
         \o ScanCollections(collections, Tail(order), locale, regex)

\* SearchResultCmp with the names compared by str::cmp
SearchResultCmp_plain(a, b) ==
    IF a.weight # b.weight THEN CmpInt(a.weight, b.weight)
    ELSE StrCmp(a.name, b.name)

\* the comparator of results.sort_by, lines 274-277
SearchResultCmp(a, b) ==
    IF a.weight # b.weight THEN CmpInt(a.weight, b.weight)
    ELSE natural_lexical_cmp(a.name, b.name)

\* slice::sort_by is a stable sort: x goes after every element not greater than it
RECURSIVE InsertBy(_, _, _)
InsertBy(Cmp(_, _), sorted, x) ==
    IF sorted = <<>> THEN <<x>>
    ELSE IF Cmp(Head(sorted), x) = "Greater" THEN <<x>> \o sorted
    ELSE <<Head(sorted)>> \o InsertBy(Cmp, Tail(sorted), x)

RECURSIVE SortBy(_, _)
SortBy(Cmp(_, _), s) ==
    IF s = <<>> THEN <<>>
    ELSE InsertBy(Cmp, SortBy(Cmp, SubSeq(s, 1, Len(s) - 1)), s[Len(s)])

SortResults(results) == SortBy(SearchResultCmp, results)

\* the results of one search worker
Search(collections, order, locale, regex) ==
    SortResults(ScanCollections(collections, order, locale, regex))

\* the orders in which a map's iterator may yield its keys
Orders(keys) ==
    {o \in [1..Cardinality(keys) -> keys] : \A i, j \in 1..Cardinality(keys) : i # j => o[i] # o[j]}

(***************************************************************************)
(* Backends and packages                                                   *)
(* A backend is known by its name; what its installed() call answers in    *)
(* this run is part of the world the application runs in.                  *)
(***************************************************************************)
BackendNames == {"backend1", "backend2"}

Package(id, name, summary) ==
    [id |-> id, name |-> name, version |-> "1", summary |-> summary, icon |-> <<id>>]

PkgA2  == Package("pkg-a2",  <<"a", "2">>,      <<"a">>)

PkgA10 == Package("pkg-a10", <<"a", "1", "0">>, <<"b">>)

PkgB   == Package("pkg-b",   <<"B">>,           <<>>)

Ok(x) == [state |-> "Ok", value |-> x]

Err == [state |-> "Err", value |-> <<>>]

\* a backend the discovery step does not find on this host
Absent == [state |-> "Absent", value |-> <<>>]

\* a backend of the host: not there, or what its installed() answers
BackendOutcomes(backend_name) ==
    IF backend_name = "backend1"
    THEN {Absent, Err, Ok(<<PkgB, PkgA2>>)}
    ELSE {Absent, Err, Ok(<<PkgA10>>)}

Worlds == {w \in [BackendNames -> UNION {BackendOutcomes(b) : b \in BackendNames}] :
              \A b \in BackendNames : w[b] \in BackendOutcomes(b)}

\* backend::backends(): the backends found usable on the host
Discovered(w) == {b \in BackendNames : w[b].state # "Absent"}

\* the collections Backend::appstream(package) may answer with
AppstreamReplies(backend_name, package) ==
    LET described == Component(Tr(package.name), Some(Tr(package.summary)))
        addon     == Component(Tr(<<"b">>), None)
    IN  {Collection(Some(backend_name), <<described>>),
         Collection(Some(backend_name), <<described, addon>>)}

(***************************************************************************)
(* State                                                                   *)
(***************************************************************************)
VARIABLES
    appstream_cache,  \* App.appstream_cache.collections: collection id -> Collection
    locale,           \* App.locale
    backends,         \* App.backends: the names registered
    show_context,     \* App.core.window.show_context
    search_active,    \* App.search_active
    search_input,     \* App.search_input
    installed,        \* App.installed: sequence of <<backend name, Package>>
    search_results,   \* App.search_results: Option<Vec<SearchResult>>
    selected_opt,     \* App.selected_opt: Option<Selected>
    tasks,            \* the worker units in flight, in the order they were dispatched
    inbox,            \* the messages workers have produced, in the order produced
    world,            \* the host: which backends exist and what installed() answers
    submitted,        \* history: the text of the search dispatched last, if any
    coordinator_ran   \* history: the slow operations the coordinating thread ran itself

vars == <<appstream_cache, locale, backends, show_context, search_active, search_input,
          installed, search_results, selected_opt, tasks, inbox, world, submitted, coordinator_ran>>

app == <<appstream_cache, locale, backends, show_context, search_active, search_input,
         installed, search_results, selected_opt>>

\* a unit can be dispatched while the pool and the queue have room
HasRoom == Len(tasks) + Len(inbox) < MaxInFlight

Remove(seq, i) == SubSeq(seq, 1, i - 1) \o SubSeq(seq, i + 1, Len(seq))

MsgNone == [type |-> "None"]

MsgBackends(b) == [type |-> "Backends", backends |-> b]

MsgInstalled(l) == [type |-> "Installed", installed |-> l]

MsgSearchResults(r) == [type |-> "SearchResults", results |-> r]

MsgSelected(sel) == [type |-> "Selected", selected |-> sel]

TaskUpdateBackends == [kind |-> "update_backends"]

TaskUpdateInstalled(b) == [kind |-> "update_installed", backends |-> b]

TaskSearch(regex, loc) == [kind |-> "search", regex |-> regex, locale |-> loc]

TaskSelectPackage(backend_name, package) ==
    [kind |-> "select_package", backend_name |-> backend_name, package |-> package]

(***************************************************************************)
(* Worker units                                                            *)
(***************************************************************************)
\* update_backends (323-340): backend::backends() discovers the usable backends
RunUpdateBackends ==
    \E i \in 1..Len(tasks) :
        /\ tasks[i].kind = "update_backends"
        /\ tasks' = Remove(tasks, i)
        /\ inbox' = Append(inbox, MsgBackends(Discovered(world)))
        /\ UNCHANGED <<app, world, submitted, coordinator_ran>>

\* CollectInstalled that gives up at the first backend whose installed() fails
RECURSIVE CollectInstalled_abort(_, _)
CollectInstalled_abort(order, answers) ==
    IF order = <<>> \/ answers[Head(order)].state # "Ok" THEN <<>>
    ELSE [k \in 1..Len(answers[Head(order)].value) |->
             <<Head(order), answers[Head(order)].value[k]>>]
         \o CollectInstalled_abort(Tail(order), answers)

\* the loop of update_installed, lines 349-363
RECURSIVE CollectInstalled(_, _)
CollectInstalled(order, answers) ==
    IF order = <<>> THEN <<>>
    ELSE LET backend_name == Head(order)
             mine == IF answers[backend_name].state = "Ok"
                     THEN [k \in 1..Len(answers[backend_name].value) |->
                              <<backend_name, answers[backend_name].value[k]>>]
                     ELSE <<>>
         IN  mine \o CollectInstalled(Tail(order), answers)

\* InstalledCmp that groups by backend before it compares names
InstalledCmp_grouped(a, b) ==
    IF a[1] # b[1] THEN (IF a[1] = "backend1" THEN "Less" ELSE "Greater")
    ELSE natural_lexical_cmp(a[2].name, b[2].name)

\* the comparator of installed.sort_by, line 365
InstalledCmp(a, b) == natural_lexical_cmp(a[2].name, b[2].name)

SortInstalled(list) == SortBy(InstalledCmp, list)

\* what one update_installed worker sends (347-366)
ListInstalled(order, answers) == SortInstalled(CollectInstalled(order, answers))

\* RunUpdateInstalled that sends no list when nothing could be listed
RunUpdateInstalled_abort ==
    \E i \in 1..Len(tasks) :
        /\ tasks[i].kind = "update_installed"
        /\ \E order \in Orders(tasks[i].backends) :
               /\ tasks' = Remove(tasks, i)
               /\ inbox' = Append(inbox,
                      IF ListInstalled(order, world) = <<>> THEN MsgNone
                      ELSE MsgInstalled(ListInstalled(order, world)))
        /\ UNCHANGED <<app, world, submitted, coordinator_ran>>

RunUpdateInstalled ==
    \E i \in 1..Len(tasks) :
        /\ tasks[i].kind = "update_installed"
        /\ \E order \in Orders(tasks[i].backends) :
               /\ tasks' = Remove(tasks, i)
               /\ inbox' = Append(inbox, MsgInstalled(ListInstalled(order, world)))
        /\ UNCHANGED <<app, world, submitted, coordinator_ran>>

\* the worker of search (213-281); it reads the shared, immutable Metadata Store
RunSearch ==
    \E i \in 1..Len(tasks) :
        /\ tasks[i].kind = "search"
        /\ \E order \in Orders(DOMAIN appstream_cache) :
               /\ tasks' = Remove(tasks, i)
               /\ inbox' = Append(inbox,
                      MsgSearchResults(Search(appstream_cache, order, tasks[i].locale,
                                              tasks[i].regex)))
        /\ UNCHANGED <<app, world, submitted, coordinator_ran>>

\* SelectedOf with name and summary exchanged
SelectedOf_swapped(backend_name, package, collection) ==
    [backend_name |-> backend_name,
     id           |-> package.id,
     icon         |-> package.icon,
     name         |-> package.summary,
     summary      |-> package.name,
     collection   |-> collection]

\* the Selected built from the package and the collection fetched, lines 299-306
SelectedOf(backend_name, package, collection) ==
    [backend_name |-> backend_name,
     id           |-> package.id,
     icon         |-> package.icon,
     name         |-> package.name,
     summary      |-> package.summary,
     collection   |-> collection]

\* the worker of select_package when backend.appstream(&package) is Ok (299-306)
RunSelectPackageOk ==
    \E i \in 1..Len(tasks) :
        /\ tasks[i].kind = "select_package"
        /\ \E collection \in AppstreamReplies(tasks[i].backend_name, tasks[i].package) :
               /\ tasks' = Remove(tasks, i)
               /\ inbox' = Append(inbox,
                      MsgSelected(SelectedOf(tasks[i].backend_name, tasks[i].package,
                                             collection)))
        /\ UNCHANGED <<app, world, submitted, coordinator_ran>>

\* RunSelectPackageErr that sends a Selected without metadata
RunSelectPackageErr_partial ==
    \E i \in 1..Len(tasks) :
        /\ tasks[i].kind = "select_package"
        /\ tasks' = Remove(tasks, i)
        /\ inbox' = Append(inbox,
               MsgSelected(SelectedOf(tasks[i].backend_name, tasks[i].package,
                                      Collection(None, <<>>))))
        /\ UNCHANGED <<app, world, submitted, coordinator_ran>>

\* RunSelectPackageErr that ends without a message
RunSelectPackageErr_silent ==
    \E i \in 1..Len(tasks) :
        /\ tasks[i].kind = "select_package"
        /\ tasks' = Remove(tasks, i)
        /\ UNCHANGED <<app, inbox, world, submitted, coordinator_ran>>

\* the worker of select_package when backend.appstream(&package) is Err (307-310)
RunSelectPackageErr ==
    \E i \in 1..Len(tasks) :
        /\ tasks[i].kind = "select_package"
        /\ tasks' = Remove(tasks, i)
        /\ inbox' = Append(inbox, MsgNone)
        /\ UNCHANGED <<app, world, submitted, coordinator_ran>>

(***************************************************************************)
(* Commands returned to the runtime by a handler                           *)
(***************************************************************************)
\* Command::none()
CommandNone == tasks' = tasks

\* Command::perform(unit)
CommandPerform(task) == tasks' = Append(tasks, task)

\* App::search (208-287)
search(regex) == CommandPerform(TaskSearch(regex, locale))

\* select_package without the registry lookup
select_package_unchecked(backend_name, package) ==
    CommandPerform(TaskSelectPackage(backend_name, package))

\* App::select_package (288-317)
select_package(backend_name, package) ==
    IF backend_name \in backends
    THEN CommandPerform(TaskSelectPackage(backend_name, package))
    ELSE CommandNone

\* App::update_installed (342-373)
update_installed(registry) == CommandPerform(TaskUpdateInstalled(registry))

(***************************************************************************)
(* Application::update, one action per Message the model covers            *)
(***************************************************************************)
\* messages a worker produced are handled in the order they were produced
Received(type) == inbox # <<>> /\ Head(inbox).type = type

\* UpdateBackends that lists the installed packages without storing the registry
UpdateBackends_unstored ==
    /\ Received("Backends")
    /\ inbox' = Tail(inbox)
    /\ backends' = backends
    /\ update_installed(Head(inbox).backends)
    /\ UNCHANGED <<appstream_cache, locale, show_context, search_active, search_input,
                   installed, search_results, selected_opt, world, submitted, coordinator_ran>>

\* Message::Backends (513-516)
UpdateBackends ==
    /\ Received("Backends")
    /\ inbox' = Tail(inbox)
    /\ backends' = Head(inbox).backends
    /\ update_installed(backends')
    /\ UNCHANGED <<appstream_cache, locale, show_context, search_active, search_input,
                   installed, search_results, selected_opt, world, submitted, coordinator_ran>>

\* UpdateInstalled that has the backends discovered again after each listing
UpdateInstalled_rescan ==
    /\ Received("Installed")
    /\ inbox' = Tail(inbox)
    /\ installed' = Head(inbox).installed
    /\ CommandPerform(TaskUpdateBackends)
    /\ UNCHANGED <<appstream_cache, locale, backends, show_context, search_active,
                   search_input, search_results, selected_opt, world, submitted, coordinator_ran>>

\* Message::Installed (525-527)
UpdateInstalled ==
    /\ Received("Installed")
    /\ inbox' = Tail(inbox)
    /\ installed' = Head(inbox).installed
    /\ CommandNone
    /\ UNCHANGED <<appstream_cache, locale, backends, show_context, search_active,
                   search_input, search_results, selected_opt, world, submitted, coordinator_ran>>

\* UpdateSearchResults that adds the new list to the one it holds
UpdateSearchResults_append ==
    /\ Received("SearchResults")
    /\ inbox' = Tail(inbox)
    /\ search_results' = IF IsSome(search_results)
                         THEN Some(Unwrap(search_results) \o Head(inbox).results)
                         ELSE Some(Head(inbox).results)
    /\ CommandNone
    /\ UNCHANGED <<appstream_cache, locale, backends, show_context, search_active,
                   search_input, installed, selected_opt, world, submitted, coordinator_ran>>

\* UpdateSearchResults that keeps the list it already holds
UpdateSearchResults_first ==
    /\ Received("SearchResults")
    /\ inbox' = Tail(inbox)
    /\ search_results' = IF IsSome(search_results) THEN search_results
                         ELSE Some(Head(inbox).results)
    /\ CommandNone
    /\ UNCHANGED <<appstream_cache, locale, backends, show_context, search_active,
                   search_input, installed, selected_opt, world, submitted, coordinator_ran>>

\* UpdateSearchResults that drops a list with an entry that does not hold the text
\* now in the search field
UpdateSearchResults_matching ==
    /\ Received("SearchResults")
    /\ inbox' = Tail(inbox)
    /\ search_results' =
           IF \A k \in 1..Len(Head(inbox).results) :
                  LET e == Head(inbox).results[k]
                  IN  \/ IsSome(find(Unwrap(parse(escape(search_input))), e.name))
                      \/ IsSome(find(Unwrap(parse(escape(search_input))), e.summary))
           THEN Some(Head(inbox).results)
           ELSE search_results
    /\ CommandNone
    /\ UNCHANGED <<appstream_cache, locale, backends, show_context, search_active,
                   search_input, installed, selected_opt, world, submitted, coordinator_ran>>

\* Message::SearchResults (547-549)
UpdateSearchResults ==
    /\ Received("SearchResults")
    /\ inbox' = Tail(inbox)
    /\ search_results' = Some(Head(inbox).results)
    /\ CommandNone
    /\ UNCHANGED <<appstream_cache, locale, backends, show_context, search_active,
                   search_input, installed, selected_opt, world, submitted, coordinator_ran>>

\* UpdateSelected that drops the search results when a selection arrives
UpdateSelected_clears ==
    /\ Received("Selected")
    /\ inbox' = Tail(inbox)
    /\ selected_opt' = Some(Head(inbox).selected)
    /\ search_results' = None
    /\ CommandNone
    /\ UNCHANGED <<appstream_cache, locale, backends, show_context, search_active,
                   search_input, installed, world, submitted, coordinator_ran>>

\* Message::Selected (605-607)
UpdateSelected ==
    /\ Received("Selected")
    /\ inbox' = Tail(inbox)
    /\ selected_opt' = Some(Head(inbox).selected)
    /\ CommandNone
    /\ UNCHANGED <<appstream_cache, locale, backends, show_context, search_active,
                   search_input, installed, search_results, world, submitted, coordinator_ran>>

\* message::none() of a worker: the runtime drops it without calling update
UpdateNone ==
    /\ Received("None")
    /\ inbox' = Tail(inbox)
    /\ CommandNone
    /\ UNCHANGED <<app, world, submitted, coordinator_ran>>

\* Message::SearchActivate (535-538), also reached through Message::Key (528-534)
SearchActivate ==
    /\ search_active' = TRUE
    /\ CommandNone
    /\ UNCHANGED <<appstream_cache, locale, backends, show_context, search_input,
                   installed, search_results, selected_opt, inbox, world, submitted, coordinator_ran>>

\* Message::SearchClear (539-543)
SearchClear ==
    /\ search_active' = FALSE
    /\ search_input' = <<>>
    /\ search_results' = None
    /\ CommandNone
    /\ UNCHANGED <<appstream_cache, locale, backends, show_context, installed,
                   selected_opt, inbox, world, submitted, coordinator_ran>>

\* Message::SearchInput (544-546)
SearchInput(inputs) ==
    /\ \E input \in inputs : search_input' = input
    /\ CommandNone
    /\ UNCHANGED <<appstream_cache, locale, backends, show_context, search_active,
                   installed, search_results, selected_opt, inbox, world, submitted, coordinator_ran>>

\* SearchSubmit without the test for an empty search field
SearchSubmit_unchecked ==
    /\ LET built == build(escape(search_input))
       IN  IF IsSome(built)
           THEN HasRoom /\ search(Unwrap(built)) /\ submitted' = Some(search_input)
           ELSE CommandNone /\ UNCHANGED submitted
    /\ UNCHANGED <<app, inbox, world, coordinator_ran>>

\* SearchSubmit that searches for everything when the pattern does not compile
SearchSubmit_fallback ==
    /\ IF search_input # <<>>
       THEN LET built == build(escape(search_input))
            IN  /\ HasRoom
                /\ search(IF IsSome(built) THEN Unwrap(built) ELSE <<>>)
                /\ submitted' = Some(search_input)
       ELSE CommandNone /\ UNCHANGED submitted
    /\ UNCHANGED <<app, inbox, world, coordinator_ran>>

\* Message::SearchSubmit (550-565)
SearchSubmit ==
    /\ IF search_input # <<>>
       THEN LET pattern == escape(search_input)
                built   == build(pattern)
            IN  IF IsSome(built)
                THEN HasRoom /\ search(Unwrap(built)) /\ submitted' = Some(search_input)
                ELSE CommandNone /\ UNCHANGED submitted
       ELSE CommandNone /\ UNCHANGED submitted
    /\ UNCHANGED <<app, inbox, world, coordinator_ran>>

\* SelectInstalledAt that takes the last entry for an index past the end
SelectInstalledAt_clamped(installed_i) ==
    /\ IF installed # <<>>
       THEN LET entry == IF installed_i < Len(installed) THEN installed[installed_i + 1]
                         ELSE installed[Len(installed)]
            IN  /\ entry[1] \in backends => HasRoom
                /\ select_package(entry[1], entry[2])
       ELSE CommandNone
    /\ UNCHANGED <<app, inbox, world, submitted, coordinator_ran>>

\* Message::SelectInstalled(installed_i) (566-582)
SelectInstalledAt(installed_i) ==
    /\ IF installed_i < Len(installed)
       THEN LET entry == installed[installed_i + 1]
            IN  /\ entry[1] \in backends => HasRoom
                /\ select_package(entry[1], entry[2])
       ELSE CommandNone
    /\ UNCHANGED <<app, inbox, world, submitted, coordinator_ran>>

\* Message::SelectInstalled with any index, in range or one past the end
SelectInstalled == \E installed_i \in 0..Len(installed) : SelectInstalledAt(installed_i)

\* Message::SelectNone (583-585)
SelectNone ==
    /\ selected_opt' = None
    /\ CommandNone
    /\ UNCHANGED <<appstream_cache, locale, backends, show_context, search_active,
                   search_input, installed, search_results, inbox, world, submitted, coordinator_ran>>

\* the Selected built from a search result, lines 590-597
SelectedOfResult(result) ==
    [backend_name |-> result.backend_name,
     id           |-> result.id,
     icon         |-> result.icon,
     name         |-> result.name,
     summary      |-> result.summary,
     collection   |-> result.collection]

ResultsLen == IF IsSome(search_results) THEN Len(Unwrap(search_results)) ELSE 0

\* Message::SelectSearchResult(result_i) (586-604)
SelectSearchResultAt(result_i) ==
    /\ IF IsSome(search_results) /\ result_i < Len(Unwrap(search_results))
       THEN selected_opt' = Some(SelectedOfResult(Unwrap(search_results)[result_i + 1]))
       ELSE selected_opt' = selected_opt
    /\ CommandNone
    /\ UNCHANGED <<appstream_cache, locale, backends, show_context, search_active,
                   search_input, installed, search_results, inbox, world, submitted,
                   coordinator_ran>>

\* Message::SelectSearchResult with any index, in range or one past the end
SelectSearchResult == \E result_i \in 0..ResultsLen : SelectSearchResultAt(result_i)

\* Message::ToggleContextPage (611-620); ContextPage has the one value Settings
ToggleContextPage ==
    /\ show_context' = ~show_context
    /\ CommandNone
    /\ UNCHANGED <<appstream_cache, locale, backends, search_active, search_input,
                   installed, search_results, selected_opt, inbox, world, submitted, coordinator_ran>>

\* on_escape that closes the search and keeps its results
on_escape_keeps ==
    /\ IF show_context
       THEN /\ show_context' = FALSE
            /\ UNCHANGED <<search_active, search_results>>
       ELSE IF search_active
            THEN /\ search_active' = FALSE
                 /\ UNCHANGED <<show_context, search_results>>
            ELSE UNCHANGED <<show_context, search_active, search_results>>
    /\ CommandNone
    /\ UNCHANGED <<appstream_cache, locale, backends, search_input, installed,
                   selected_opt, inbox, world, submitted, coordinator_ran>>

\* Application::on_escape (464-474)
on_escape ==
    /\ IF show_context
       THEN /\ show_context' = FALSE
            /\ UNCHANGED <<search_active, search_results>>
       ELSE IF search_active
            THEN /\ search_active' = FALSE
                 /\ search_results' = None
                 /\ UNCHANGED show_context
            ELSE UNCHANGED <<show_context, search_active, search_results>>
    /\ CommandNone
    /\ UNCHANGED <<appstream_cache, locale, backends, search_input, installed,
                   selected_opt, inbox, world, submitted, coordinator_ran>>

(***************************************************************************)
(* Application::init (429-462) and the specifications                      *)
(***************************************************************************)
\* what init runs on the coordinating thread before the first message: it loads
\* the Metadata Store itself (435-441); update_backends is dispatched (460)
InitRan == {"AppstreamCache::new"}

\* AppInit that dispatches the listing in the same batch as the discovery
AppInit_batch(cache, loc, w) ==
    /\ appstream_cache = cache
    /\ locale = loc
    /\ backends = {}
    /\ show_context = FALSE
    /\ search_active = FALSE
    /\ search_input = <<>>
    /\ installed = <<>>
    /\ search_results = None
    /\ selected_opt = None
    /\ tasks = <<TaskUpdateBackends, TaskUpdateInstalled({})>>
    /\ inbox = <<>>
    /\ world = w
    /\ submitted = None
    /\ coordinator_ran = InitRan

\* the state init returns, with its command batch dispatched
AppInit(cache, loc, w) ==
    /\ appstream_cache = cache
    /\ locale = loc
    /\ backends = {}
    /\ show_context = FALSE
    /\ search_active = FALSE
    /\ search_input = <<>>
    /\ installed = <<>>
    /\ search_results = None
    /\ selected_opt = None
    /\ tasks = <<TaskUpdateBackends>>
    /\ inbox = <<>>
    /\ world = w
    /\ submitted = None
    /\ coordinator_ran = InitRan

\* the Metadata Store of the application runs
CompA == Component(Tr(<<"A">>), None)

CompA2 == Component(Tr(<<"a", "2">>), Some(Tr(<<".", "a">>)))

CompA10 == Component(TrLocal(<<"a", "1", "0">>, "de", <<"a", "1">>), None)

CompB == Component(Tr(<<"b">>), Some(TrLocal(<<"a">>, "de", <<"b">>)))

CompBB == Component(Tr(<<"b", "b">>), Some(Tr(<<"a">>)))

MainStore == [id \in {"c1"} |-> Collection(Some("o1"), <<CompA2, CompB>>)]

\* the texts typed into the search field
Queries == {<<>>, <<"a">>}

Init == \E w \in Worlds : AppInit(MainStore, "en-US", w)

Next ==
    \/ RunUpdateBackends
    \/ RunUpdateInstalled
    \/ RunSearch
    \/ RunSelectPackageOk
    \/ RunSelectPackageErr
    \/ UpdateBackends
    \/ UpdateInstalled
    \/ UpdateSearchResults
    \/ UpdateSelected
    \/ UpdateNone
    \/ SearchActivate
    \/ SearchClear
    \/ SearchInput(Queries)
    \/ SearchSubmit
    \/ SelectInstalled
    \/ SelectNone
    \/ SelectSearchResult
    \/ ToggleContextPage
    \/ on_escape

Spec == Init /\ [][Next]_vars

(***************************************************************************)
(* The application with its scheduling: the runtime polls every dispatched *)
(* future to completion (each spawn_blocking closure runs and returns) and *)
(* the message loop hands every queued message to update.                  *)
(***************************************************************************)
\* the message loop: the message at the head of the queue is handled
HandleMessage ==
    \/ UpdateBackends
    \/ UpdateInstalled
    \/ UpdateSearchResults
    \/ UpdateSelected
    \/ UpdateNone

\* RunUpdateInstalled is enabled exactly when such a unit is in the pool
InstalledUnitPending == \E i \in 1..Len(tasks) : tasks[i].kind = "update_installed"

\* the second conjunct is WF_vars(RunUpdateInstalled) with ENABLED written out
Fairness ==
    /\ WF_vars(RunUpdateBackends)
    /\ ([]<>(~InstalledUnitPending) \/ []<><<RunUpdateInstalled>>_vars)
    /\ WF_vars(HandleMessage)

FairSpec == Init /\ [][Next]_vars /\ Fairness

(***************************************************************************)
(* The search pipeline on its own: the application is idle after a start   *)
(* on a host without backends, a text is in the search field, and only     *)
(* SearchSubmit, the search worker and Message::SearchResults act.         *)
(***************************************************************************)
NoBackends == [b \in BackendNames |-> Absent]

SearchReady(cache, loc, input) ==
    /\ appstream_cache = cache
    /\ locale = loc
    /\ backends = {}
    /\ show_context = FALSE
    /\ search_active = TRUE
    /\ search_input = input
    /\ installed = <<>>
    /\ search_results = None
    /\ selected_opt = None
    /\ tasks = <<>>
    /\ inbox = <<>>
    /\ world = NoBackends
    /\ submitted = None
    /\ coordinator_ran = InitRan

SearchNext ==
    \/ SearchSubmit
    \/ RunSearch
    \/ UpdateSearchResults

\* a store of one component, with every name, summary and query up to MaxLen
SingleStore(name, summary) ==
    [id \in {"c1"} |-> Collection(None, <<Component(Tr(name), Some(Tr(summary)))>>)]

WeightInit ==
    \E name \in Str, summary \in Str, input \in Str \ {<<>>} :
        SearchReady(SingleStore(name, summary), "en-US", input)

WeightSpec == WeightInit /\ [][SearchNext]_vars

\* stores of two collections: "c1" with up to MaxComponents of these components,
\* "c2" with none or one of them
ComponentPool == {CompA, CompA2, CompA10, CompB, CompBB}

RECURSIVE SeqsUpTo(_, _)
SeqsUpTo(S, n) ==
    IF n = 0 THEN {<<>>}
    ELSE LET shorter == SeqsUpTo(S, n - 1)
         IN  shorter \cup {Append(s, x) : s \in {t \in shorter : Len(t) = n - 1}, x \in S}

SearchStores ==
    {[id \in {"c1", "c2"} |-> Collection(Some(id), IF id = "c1" THEN s1 ELSE s2)] :
        s1 \in SeqsUpTo(ComponentPool, MaxComponents),
        s2 \in SeqsUpTo(ComponentPool, 1)}

SearchInit ==
    \E cache \in SearchStores, loc \in Locales, input \in {<<"a">>, <<".">>} :
        SearchReady(cache, loc, input)

SearchSpec == SearchInit /\ [][SearchNext]_vars

(***************************************************************************)
(* The search pipeline on stores of one component whose name and summary   *)
(* are translated for any subset of the locales, with or without a default *)
(* string, or whose summary is missing.                                    *)
(***************************************************************************)
\* the string a translatable holds under a key
KeyString(key) ==
    CASE key = "default" -> <<"a">>
      [] key = "en-US"   -> <<"a", "b">>
      [] key = "de"      -> <<"b", "a">>

Translatables == {[key \in keys |-> KeyString(key)] : keys \in SUBSET {"default", "en-US", "de"}}

LocaleStores ==
    {[id \in {"c1"} |-> Collection(None, <<Component(name, summary_opt)>>)] :
        name \in Translatables,
        summary_opt \in {None} \cup {Some(t) : t \in Translatables}}

LocaleInit ==
    \E cache \in LocaleStores, loc \in Locales, input \in {<<"a">>, <<"b">>} :
        SearchReady(cache, loc, input)

LocaleSpec == LocaleInit /\ [][SearchNext]_vars

(***************************************************************************)
(* The selection resolver on its own: the start-up, and select_package     *)
(* called with any backend name and package, as well as through            *)
(* Message::SelectInstalled.                                               *)
(***************************************************************************)
AllPackages == {PkgA2, PkgA10, PkgB}

\* one call of select_package(backend_name, package) on the coordinating thread
SelectPackageCall(backend_name, package) ==
    /\ backend_name \in backends => HasRoom
    /\ select_package(backend_name, package)
    /\ UNCHANGED <<app, inbox, world, submitted, coordinator_ran>>

ResolverNext ==
    \/ RunUpdateBackends
    \/ RunUpdateInstalled
    \/ RunSelectPackageOk
    \/ RunSelectPackageErr
    \/ UpdateBackends
    \/ UpdateInstalled
    \/ UpdateSelected
    \/ UpdateNone
    \/ SelectInstalled
    \/ SelectNone
    \/ \E backend_name \in BackendNames, package \in AllPackages :
           SelectPackageCall(backend_name, package)

ResolverSpec == Init /\ [][ResolverNext]_vars

(***************************************************************************)
(* A session of searches and selections on a host with one backend and one *)
(* installed package: two different queries, the empty text and a text too *)
(* long to compile can be typed and submitted.                             *)
(***************************************************************************)
SessionWorld == [b \in BackendNames |-> IF b = "backend2" THEN Ok(<<PkgA10>>) ELSE Absent]

\* a text whose compiled pattern exceeds the size limit
LongQuery == [k \in 1..(SizeLimit + 1) |-> "a"]

SessionQueries == {<<>>, <<"a">>, <<"b">>, LongQuery}

SessionInit == AppInit(MainStore, "en-US", SessionWorld)

SessionNext ==
    \/ RunUpdateBackends
    \/ RunUpdateInstalled
    \/ RunSearch
    \/ RunSelectPackageOk
    \/ RunSelectPackageErr
    \/ UpdateBackends
    \/ UpdateInstalled
    \/ UpdateSearchResults
    \/ UpdateSelected
    \/ UpdateNone
    \/ SearchActivate
    \/ SearchClear
    \/ SearchInput(SessionQueries)
    \/ SearchSubmit
    \/ SelectInstalled
    \/ SelectNone
    \/ SelectSearchResult
    \/ ToggleContextPage
    \/ on_escape

SessionSpec == SessionInit /\ [][SessionNext]_vars

(***************************************************************************)
(* The application driven through its window: a message of a widget is     *)
(* sent only while header_start (650-662) or view (665-764) shows that     *)
(* widget, and is handled in the state that showed it.  Key bindings       *)
(* (SearchActivate, escape) work at any time.                              *)
(***************************************************************************)
\* header_start: the search field is shown while the search is active
ViewSearchInput == search_active /\ SearchInput(Queries)

ViewSearchSubmit == search_active /\ SearchSubmit

ViewSearchClear == search_active /\ SearchClear

\* view: the details of the selection, with the Back button
ViewSelectNone == IsSome(selected_opt) /\ SelectNone

\* view: the rows of the search results
ViewSelectSearchResult ==
    /\ selected_opt = None
    /\ IsSome(search_results)
    /\ \E result_i \in 0..(ResultsLen - 1) : SelectSearchResultAt(result_i)

\* view: the rows of the installed list
ViewSelectInstalled ==
    /\ selected_opt = None
    /\ search_results = None
    /\ \E installed_i \in 0..(Len(installed) - 1) : SelectInstalledAt(installed_i)

UiNext ==
    \/ RunUpdateBackends
    \/ RunUpdateInstalled
    \/ RunSearch
    \/ RunSelectPackageOk
    \/ RunSelectPackageErr
    \/ UpdateBackends
    \/ UpdateInstalled
    \/ UpdateSearchResults
    \/ UpdateSelected
    \/ UpdateNone
    \/ SearchActivate
    \/ ViewSearchClear
    \/ ViewSearchInput
    \/ ViewSearchSubmit
    \/ ViewSelectInstalled
    \/ ViewSelectNone
    \/ ViewSelectSearchResult
    \/ ToggleContextPage
    \/ on_escape

UiSpec == SessionInit /\ [][UiNext]_vars

(***************************************************************************)
(* What the claims speak of, stated without the program's operators        *)
(***************************************************************************)
SameIgnoreCase(s, t) ==
    /\ Len(s) = Len(t)
    /\ \A k \in 1..Len(s) : ToLower(s[k]) = ToLower(t[k])

\* q occurs in text at the 0-based position pos, as a literal, ignoring case
OccursAt(q, text, pos) ==
    /\ pos + Len(q) <= Len(text)
    /\ SameIgnoreCase(q, SubSeq(text, pos + 1, pos + Len(q)))

ContainsIgnoreCase(q, text) == \E pos \in 0..Len(text) : OccursAt(q, text, pos)

\* 0: text equals q, 1: text starts with q and is longer, 2: q first occurs later
Tier(q, text) ==
    IF SameIgnoreCase(q, text) THEN 0
    ELSE IF OccursAt(q, text, 0) THEN 1
    ELSE 2

\* every list of results a search has produced and that is queued or shown
ResultLists ==
    {inbox[k].results : k \in {j \in 1..Len(inbox) : inbox[j].type = "SearchResults"}}
    \cup (IF IsSome(search_results) THEN {Unwrap(search_results)} ELSE {})

\* the (collection id, component index) pairs of the Metadata Store
StorePairs ==
    UNION {{<<id, k>> : k \in 1..Len(appstream_cache[id].components)} :
              id \in DOMAIN appstream_cache}

PairName(pr) == ComponentName(appstream_cache[pr[1]].components[pr[2]], locale)

PairSummary(pr) == ComponentSummary(appstream_cache[pr[1]].components[pr[2]], locale)

\* the entries of a result list that stand for the pair's id, name and summary
EntriesFor(results, pr) ==
    {i \in 1..Len(results) :
        /\ results[i].id = pr[1]
        /\ results[i].name = PairName(pr)
        /\ results[i].summary = PairSummary(pr)}

(***************************************************************************)
(* C1  In search, a component whose localized name contains the query as   *)
(* a case-insensitive literal gets weight 0 if the name equals the query,  *)
(* 1 if the name starts with the query and is longer, 2 if the query first *)
(* occurs at a position greater than 0.  (WeightSpec: the query is the     *)
(* text in the search field.)                                              *)
(***************************************************************************)
C1_NameWeight ==
    \A results \in ResultLists : \A pr \in StorePairs :
        ContainsIgnoreCase(search_input, PairName(pr)) =>
            /\ EntriesFor(results, pr) # {}
            /\ \A i \in EntriesFor(results, pr) :
                   results[i].weight = Tier(search_input, PairName(pr))

\* a delivered result whose name holds the query past position 0, in another case
C1_Witness ==
    /\ IsSome(search_results)
    /\ \E i \in 1..Len(Unwrap(search_results)) :
           LET e == Unwrap(search_results)[i]
           IN  /\ e.weight = 2
               /\ ContainsIgnoreCase(search_input, e.name)
               /\ ~OccursAt(search_input, e.name, 0)
               /\ \A pos \in 0..Len(e.name) :
                      OccursAt(search_input, e.name, pos) =>
                          SubSeq(e.name, pos + 1, pos + Len(search_input)) # search_input

(***************************************************************************)
(* C2  In search, a component whose localized name does not contain the    *)
(* query but whose localized summary does gets weight 3 if the summary     *)
(* equals the query, 4 if the summary starts with the query and is longer, *)
(* 5 if the query first occurs in the summary at a position greater than   *)
(* 0, whatever the length of the name.                                     *)
(***************************************************************************)
C2_SummaryWeight ==
    \A results \in ResultLists : \A pr \in StorePairs :
        (/\ ~ContainsIgnoreCase(search_input, PairName(pr))
         /\ ContainsIgnoreCase(search_input, PairSummary(pr))) =>
            \A i \in EntriesFor(results, pr) :
                results[i].weight = 3 + Tier(search_input, PairSummary(pr))

(***************************************************************************)
(* C3  The result list of one search has exactly one entry for each        *)
(* (collection, component) pair of the Metadata Store whose localized name *)
(* or summary contains the query, and none for a component that matches in *)
(* neither; a component in several collections has an entry for each.      *)
(***************************************************************************)
PairMatches(pr) ==
    \/ ContainsIgnoreCase(search_input, PairName(pr))
    \/ ContainsIgnoreCase(search_input, PairSummary(pr))

\* the pairs of one collection that read the same as pr
PairsLike(pr) ==
    {other \in StorePairs :
        /\ other[1] = pr[1]
        /\ PairName(other) = PairName(pr)
        /\ PairSummary(other) = PairSummary(pr)}

C3_ExactlyTheMatches ==
    \A results \in ResultLists :
        /\ Len(results) = Cardinality({pr \in StorePairs : PairMatches(pr)})
        /\ \A pr \in StorePairs :
               Cardinality(EntriesFor(results, pr)) =
                   IF PairMatches(pr) THEN Cardinality(PairsLike(pr)) ELSE 0
        /\ \A i \in 1..Len(results) : \E pr \in StorePairs : i \in EntriesFor(results, pr)

\* results shown for a store where one matching component is in both collections
\* and another component matches in neither
C3_Witness ==
    /\ IsSome(search_results)
    /\ \E pr \in StorePairs : ~PairMatches(pr)
    /\ \E i, j \in 1..Len(Unwrap(search_results)) :
           LET r == Unwrap(search_results)
           IN  /\ r[i].id # r[j].id
               /\ r[i].name = r[j].name
               /\ r[i].summary = r[j].summary

(***************************************************************************)
(* C4  Every result list is ordered by ascending weight and, within equal  *)
(* weight, by natural lexical order of name (digit runs as numbers); so an *)
(* exact-name match precedes a prefix match, and every name match precedes *)
(* every summary-only match.                                               *)
(***************************************************************************)
\* 0, 1, 2: how the name matches the query; 3: only the summary does
MatchKind(entry) ==
    IF ContainsIgnoreCase(search_input, entry.name)
    THEN Tier(search_input, entry.name)
    ELSE 3

C4_Ranked ==
    \A results \in ResultLists : \A i, j \in 1..Len(results) :
        /\ i < j =>
              \/ results[i].weight < results[j].weight
              \/ /\ results[i].weight = results[j].weight
                 /\ natural_lexical_cmp(results[i].name, results[j].name) # "Greater"
        /\ MatchKind(results[i]) < MatchKind(results[j]) => i < j

\* three results shown: an exact match, then a prefix match whose name would come
\* later by character order, then another one
C4_Witness ==
    /\ IsSome(search_results)
    /\ Len(Unwrap(search_results)) >= 3
    /\ \E i \in 1..Len(Unwrap(search_results)) - 1 :
           LET r == Unwrap(search_results)
           IN  /\ r[1].weight = 0
               /\ r[i].weight = r[i + 1].weight
               /\ StrCmp(r[i].name, r[i + 1].name) = "Greater"
               /\ DigitRunLen(Tail(r[i].name)) < DigitRunLen(Tail(r[i + 1].name))

(***************************************************************************)
(* C5  When a backend's appstream fetch for a selected package fails, no   *)
(* Selected message is delivered and selected_opt is afterwards what it    *)
(* was: the failing worker sends only the absent message, and neither its  *)
(* step nor the handling of that message changes the application's state.  *)
(***************************************************************************)
C5_FetchFailureKeepsSelection ==
    [][/\ RunSelectPackageErr =>
              /\ inbox' = Append(inbox, MsgNone)
              /\ selected_opt' = selected_opt
              /\ app' = app
       /\ (Received("None") /\ inbox' = Tail(inbox)) =>
              /\ selected_opt' = selected_opt
              /\ app' = app
              /\ tasks' = tasks]_vars

\* a fetch has failed while a package was selected
C5_Witness ==
    /\ IsSome(selected_opt)
    /\ Unwrap(selected_opt).backend_name \in backends
    /\ \E k \in 1..Len(inbox) : inbox[k] = MsgNone

(***************************************************************************)
(* C6  When select_package is called with a backend name that is not in    *)
(* the Backend Registry, no worker unit is dispatched, no Selected value   *)
(* is produced, and selected_opt and every other state field keep their    *)
(* values.                                                                 *)
(***************************************************************************)
C6_LookupMissIsNoOp ==
    [][\A backend_name \in BackendNames, package \in AllPackages :
           (backend_name \notin backends /\ SelectPackageCall(backend_name, package)) =>
               /\ tasks' = tasks
               /\ inbox' = inbox
               /\ selected_opt' = selected_opt
               /\ app' = app]_vars

\* a package is selected and one of the backend names is not registered
C6_Witness ==
    /\ IsSome(selected_opt)
    /\ installed # <<>>
    /\ tasks = <<>>
    /\ inbox = <<>>
    /\ \E backend_name \in BackendNames : backend_name \notin backends

(***************************************************************************)
(* C7  When SelectInstalled names a package whose backend is registered    *)
(* and that backend's appstream fetch succeeds, exactly one Selected       *)
(* message is delivered, and handling it sets selected_opt to a record     *)
(* with the backend name, id, icon, name and summary of the chosen Package *)
(* and the Collection the backend returned.                                *)
(***************************************************************************)
\* the step dispatches a select_package unit
DispatchesSelect ==
    /\ Len(tasks') = Len(tasks) + 1
    /\ tasks'[Len(tasks')].kind = "select_package"

C7_SelectInstalledSelects ==
    [][/\ DispatchesSelect =>
              \E i \in 1..Len(installed) :
                  /\ installed[i][1] \in backends
                  /\ tasks' = Append(tasks, [kind         |-> "select_package",
                                             backend_name |-> installed[i][1],
                                             package      |-> installed[i][2]])
       /\ RunSelectPackageOk =>
              \E i \in 1..Len(tasks) :
                  /\ tasks[i].kind = "select_package"
                  /\ tasks' = Remove(tasks, i)
                  /\ \E collection \in AppstreamReplies(tasks[i].backend_name,
                                                        tasks[i].package) :
                         inbox' = Append(inbox,
                             [type     |-> "Selected",
                              selected |-> [backend_name |-> tasks[i].backend_name,
                                            id           |-> tasks[i].package.id,
                                            icon         |-> tasks[i].package.icon,
                                            name         |-> tasks[i].package.name,
                                            summary      |-> tasks[i].package.summary,
                                            collection   |-> collection]])
       /\ (Received("Selected") /\ inbox' = Tail(inbox)) =>
              selected_opt' = Some(Head(inbox).selected)]_vars

\* an installed package is selected, with the larger collection its backend returned
C7_Witness ==
    /\ IsSome(selected_opt)
    /\ \E i \in 1..Len(installed) :
           LET sel == Unwrap(selected_opt)
           IN  /\ sel.backend_name = installed[i][1]
               /\ sel.backend_name \in backends
               /\ sel.id = installed[i][2].id
               /\ sel.name = installed[i][2].name
               /\ sel.name # sel.summary
               /\ sel.collection \in AppstreamReplies(installed[i][1], installed[i][2])
               /\ Len(sel.collection.components) = 2

(***************************************************************************)
(* C8  The installed list produced by update_installed contains exactly    *)
(* the packages returned by the registered backends whose installed() call *)
(* succeeded, each tagged with the backend that returned it, and no entry  *)
(* from a backend whose call failed; a failing backend does not stop the   *)
(* enumeration of the backends after it.                                   *)
(***************************************************************************)
\* every installed list a listing has produced and that is queued or shown
InstalledLists ==
    {inbox[k].installed : k \in {j \in 1..Len(inbox) : inbox[j].type = "Installed"}}
    \cup (IF installed # <<>> THEN {installed} ELSE {})

Succeeded == {b \in backends : world[b].state = "Ok"}

Occurrences(seq, x) == Cardinality({k \in 1..Len(seq) : seq[k] = x})

C8_ExactlySucceededBackends ==
    \A list \in InstalledLists :
        /\ Len(list) = Cardinality(UNION {{<<b, k>> : k \in 1..Len(world[b].value)} :
                                              b \in Succeeded})
        /\ \A b \in BackendNames, package \in AllPackages :
               Occurrences(list, <<b, package>>) =
                   IF b \in Succeeded THEN Occurrences(world[b].value, package) ELSE 0

\* a list with packages of one backend although the other registered backend failed
C8_Witness ==
    \E list \in InstalledLists :
        /\ list # <<>>
        /\ \E b \in backends : world[b].state = "Err"

(***************************************************************************)
(* C9  update_installed always delivers an Installed message, also when    *)
(* every registered backend's installed() call fails or no backend is      *)
(* registered; the list delivered is then empty, and handling the message  *)
(* makes it the installed state.                                           *)
(***************************************************************************)
C9_AlwaysAnInstalledMessage ==
    [][/\ \A i \in 1..Len(tasks) :
              (tasks[i].kind = "update_installed" /\ tasks' = Remove(tasks, i)) =>
                  /\ Len(inbox') = Len(inbox) + 1
                  /\ SubSeq(inbox', 1, Len(inbox)) = inbox
                  /\ inbox'[Len(inbox')].type = "Installed"
                  /\ (\A b \in tasks[i].backends : world[b].state # "Ok") =>
                         inbox'[Len(inbox')] = MsgInstalled(<<>>)
       /\ (Received("Installed") /\ inbox' = Tail(inbox)) =>
              installed' = Head(inbox).installed]_vars

\* the empty list is queued after every registered backend failed
C9_Witness ==
    /\ backends # {}
    /\ \A b \in backends : world[b].state = "Err"
    /\ \E k \in 1..Len(inbox) : inbox[k] = MsgInstalled(<<>>)

(***************************************************************************)
(* C10  The merged installed list is sorted by natural lexical order of    *)
(* package name across all backends: packages of different backends are    *)
(* interleaved by name, not grouped by backend.                            *)
(***************************************************************************)
C10_InstalledSorted ==
    \A list \in InstalledLists : \A i, j \in 1..Len(list) :
        i < j => natural_lexical_cmp(list[i][2].name, list[j][2].name) # "Greater"

\* a package of one backend between two packages of the other, "a2" before "a10"
C10_Witness ==
    /\ Len(installed) = 3
    /\ installed[1][1] = installed[3][1]
    /\ installed[1][1] # installed[2][1]
    /\ installed[1][2].name = <<"a", "2">>
    /\ installed[2][2].name = <<"a", "1", "0">>

(***************************************************************************)
(* C11  When SearchSubmit is processed while the search field is empty, no *)
(* search worker is dispatched, and search_results, selected_opt and every *)
(* other state field keep their values.                                    *)
(***************************************************************************)
\* the step dispatches a search unit
DispatchesSearch ==
    /\ Len(tasks') = Len(tasks) + 1
    /\ tasks'[Len(tasks')].kind = "search"

C11_EmptySubmitIsNoOp ==
    [][/\ (search_input = <<>> /\ SearchSubmit) =>
              /\ tasks' = tasks
              /\ inbox' = inbox
              /\ search_results' = search_results
              /\ selected_opt' = selected_opt
              /\ app' = app
       /\ search_input = <<>> => ~DispatchesSearch]_vars

\* the field is empty while results of an earlier search are held, an entry is
\* selected, and a worker could be dispatched
C11_Witness ==
    /\ search_input = <<>>
    /\ IsSome(search_results)
    /\ Unwrap(search_results) # <<>>
    /\ IsSome(selected_opt)
    /\ submitted = Some(<<"a">>)
    /\ HasRoom

(***************************************************************************)
(* C12  Every worker unit (search, select_package fetch, update_backends,  *)
(* update_installed) sends exactly one message to the coordinating thread  *)
(* when it completes, on success and on failure alike: a step that ends a  *)
(* unit appends one message of the unit's kind (the absent message for a   *)
(* failed fetch), and no message is queued without a unit ending.          *)
(***************************************************************************)
ReplyTypes(kind) ==
    CASE kind = "update_backends"  -> {"Backends"}
      [] kind = "update_installed" -> {"Installed"}
      [] kind = "search"           -> {"SearchResults"}
      [] kind = "select_package"   -> {"Selected", "None"}

C12_OneMessagePerUnit ==
    [][/\ Len(tasks') < Len(tasks) =>
              \E i \in 1..Len(tasks) :
                  /\ tasks' = Remove(tasks, i)
                  /\ Len(inbox') = Len(inbox) + 1
                  /\ SubSeq(inbox', 1, Len(inbox)) = inbox
                  /\ inbox'[Len(inbox')].type \in ReplyTypes(tasks[i].kind)
       /\ Len(inbox') > Len(inbox) =>
              /\ Len(inbox') = Len(inbox) + 1
              /\ Len(tasks') = Len(tasks) - 1]_vars

\* two fetches have ended, one failed and one succeeded: one message each
C12_Witness ==
    /\ tasks = <<>>
    /\ Len(inbox) = 2
    /\ inbox[1].type = "None"
    /\ inbox[2].type = "Selected"

(***************************************************************************)
(* C13  Last processed wins: handling a SearchResults message always makes *)
(* its payload the search results, and search_results changes in no other  *)
(* way except the reset by SearchClear or escape; handling a Selected      *)
(* message always makes its payload the selection, and selected_opt        *)
(* changes in no other way except by SelectSearchResult and SelectNone.    *)
(* So with no unit in flight and nothing queued, both fields hold what the *)
(* message handled last wrote, whatever the order the requests were made   *)
(* in.                                                                     *)
(***************************************************************************)
Handles(type) == Received(type) /\ inbox' = Tail(inbox)

C13_LastProcessedWins ==
    [][/\ Handles("SearchResults") => search_results' = Some(Head(inbox).results)
       /\ search_results' # search_results =>
              \/ Handles("SearchResults") /\ search_results' = Some(Head(inbox).results)
              \/ /\ search_results' = None
                 /\ search_active' = FALSE
                 /\ inbox' = inbox
       /\ Handles("Selected") => selected_opt' = Some(Head(inbox).selected)
       /\ selected_opt' # selected_opt =>
              \/ Handles("Selected") /\ selected_opt' = Some(Head(inbox).selected)
              \/ selected_opt' = None /\ inbox' = inbox
              \/ /\ inbox' = inbox
                 /\ \E i \in 1..ResultsLen :
                        selected_opt' = Some(SelectedOfResult(Unwrap(search_results)[i]))]_vars

\* the lists a search worker can produce for a text
ResultsFor(text) ==
    {Search(appstream_cache, order, locale, Unwrap(build(escape(text)))) :
        order \in Orders(DOMAIN appstream_cache)}

\* a search and a fetch were in flight together and both have been handled: the
\* results of the text submitted last and the package the backend described
C13_Witness ==
    /\ tasks = <<>>
    /\ inbox = <<>>
    /\ submitted = Some(<<"b">>)
    /\ IsSome(search_results)
    /\ Unwrap(search_results) \in ResultsFor(<<"b">>)
    /\ IsSome(selected_opt)
    /\ Unwrap(selected_opt).backend_name \in backends

(***************************************************************************)
(* C14  Results carry no request identifier: a SearchResults message whose *)
(* list is not a result of the text submitted last is stored like any      *)
(* other.  So with two searches in flight for different texts q1 (first)   *)
(* and q2 (second), a state with nothing in flight or queued is reachable  *)
(* in which search_results holds the results of q1.                        *)
(***************************************************************************)
C14_StaleResultOverwrites ==
    /\ [](\A k \in 1..Len(inbox) :
              inbox[k].type = "SearchResults" => DOMAIN inbox[k] = {"type", "results"})
    /\ [][(/\ Handles("SearchResults")
           /\ IsSome(submitted)
           /\ Head(inbox).results \notin ResultsFor(Unwrap(submitted))) =>
               search_results' = Some(Head(inbox).results)]_vars

\* nothing in flight or queued, q2 was submitted last, the results are those of q1
C14_Witness ==
    /\ tasks = <<>>
    /\ inbox = <<>>
    /\ IsSome(search_results)
    /\ \E q1, q2 \in {<<"a">>, <<"b">>} :
           /\ q1 # q2
           /\ submitted = Some(q2)
           /\ Unwrap(search_results) \in ResultsFor(q1)
           /\ Unwrap(search_results) \notin ResultsFor(q2)

(***************************************************************************)
(* C15  Search and selection are independent message streams: handling a   *)
(* SearchResults message leaves selected_opt as it is, handling a Selected *)
(* message leaves search_results as it is, and the message at the head of  *)
(* the queue can be handled whatever units are still in flight.            *)
(***************************************************************************)
C15_IndependentStreams ==
    /\ [](Received("Selected") => ENABLED UpdateSelected)
    /\ [](Received("SearchResults") => ENABLED UpdateSearchResults)
    /\ [][/\ Handles("SearchResults") => selected_opt' = selected_opt
          /\ Handles("Selected") => search_results' = search_results]_vars

\* a Selected message is due while a search is in flight and results are held
C15_Witness ==
    /\ Received("Selected")
    /\ \E i \in 1..Len(tasks) : tasks[i].kind = "search"
    /\ IsSome(search_results)
    /\ Unwrap(search_results) # <<>>

(***************************************************************************)
(* C16  In every reachable state the backend name of every entry of the    *)
(* installed list (queued or stored) is the name of a backend held in      *)
(* App.backends, so select_package finds the backend of any listed         *)
(* package.                                                                *)
(***************************************************************************)
C16_ListedBackendsRegistered ==
    \A list \in InstalledLists : \A i \in 1..Len(list) : list[i][1] \in backends

\* a listed package is being fetched while one backend name is not registered
C16_Witness ==
    /\ installed # <<>>
    /\ backends # BackendNames
    /\ \E i \in 1..Len(tasks), k \in 1..Len(installed) :
           /\ tasks[i].kind = "select_package"
           /\ tasks[i].backend_name = installed[k][1]
           /\ tasks[i].package = installed[k][2]

(***************************************************************************)
(* C17  The Backend Registry and the Metadata Store are written once:      *)
(* App.backends is assigned only when a Backends message is handled, at    *)
(* most one Backends message is ever produced, App.appstream_cache is      *)
(* never reassigned, and no search, selection or listing unit is running   *)
(* when App.backends is written.                                           *)
(***************************************************************************)
\* the update_backends units in flight and the Backends messages queued
BackendsUnits ==
    Cardinality({i \in 1..Len(tasks) : tasks[i].kind = "update_backends"})
    + Cardinality({k \in 1..Len(inbox) : inbox[k].type = "Backends"})

RunningKinds == {tasks[i].kind : i \in 1..Len(tasks)}

WrittenOnce ==
    /\ backends' # backends => Handles("Backends") /\ backends' = Head(inbox).backends
    /\ BackendsUnits' <= BackendsUnits
    /\ appstream_cache' = appstream_cache

C17_WrittenOnceNoWorker ==
    /\ [](BackendsUnits <= 1)
    /\ [][/\ WrittenOnce
          /\ Handles("Backends") =>
                 RunningKinds \cap {"search", "select_package", "update_installed"} = {}]_vars

(***************************************************************************)
(* C17 as amended: ... and no selection or listing unit, the units that    *)
(* read the registry, is running when App.backends is written; a search    *)
(* unit, which reads the Metadata Store only, may be running then.         *)
(***************************************************************************)
C17_WrittenOnceNoReader ==
    /\ [](BackendsUnits <= 1)
    /\ [][/\ WrittenOnce
          /\ Handles("Backends") =>
                 RunningKinds \cap {"select_package", "update_installed"} = {}]_vars

\* the registry has just been written while a search dispatched earlier is running
C17_Witness ==
    /\ backends # {}
    /\ installed = <<>>
    /\ inbox = <<>>
    /\ Len(tasks) = 2
    /\ tasks[1].kind = "search"
    /\ tasks[2] = TaskUpdateInstalled(backends)

(***************************************************************************)
(* C18  If the escaped, case-insensitive pattern does not compile when     *)
(* SearchSubmit is processed, no search worker is dispatched, no           *)
(* SearchResults message is produced for that text, and search_results and *)
(* every other state field keep their values; the handler returns          *)
(* normally.                                                               *)
(***************************************************************************)
CompileFails == search_input # <<>> /\ build(escape(search_input)) = None

C18_CompileFailureIsNoOp ==
    /\ [](IsSome(submitted) => IsSome(build(escape(Unwrap(submitted)))))
    /\ [][/\ (CompileFails /\ SearchSubmit) =>
                 /\ tasks' = tasks
                 /\ inbox' = inbox
                 /\ search_results' = search_results
                 /\ app' = app
          /\ CompileFails => ~DispatchesSearch]_vars

\* a text that does not compile is in the field while earlier results are held and a
\* worker could be dispatched
C18_Witness ==
    /\ CompileFails
    /\ search_active
    /\ IsSome(search_results)
    /\ Unwrap(search_results) # <<>>
    /\ HasRoom

(***************************************************************************)
(* C19  Whenever selected_opt holds a Selected value, its backend name is  *)
(* the name of a registered backend and its collection is a Collection     *)
(* that backend's appstream call returns for the selected entry, both for  *)
(* a selected installed package and for a selected search result.          *)
(***************************************************************************)
C19_SelectedFromResolver ==
    IsSome(selected_opt) =>
        LET sel == Unwrap(selected_opt)
        IN  /\ sel.backend_name \in backends
            /\ \E package \in AllPackages :
                   /\ sel.id = package.id
                   /\ sel.collection \in AppstreamReplies(sel.backend_name, package)

(***************************************************************************)
(* C20  A list of search results is discarded when it is superseded:       *)
(* handling a SearchResults message replaces the previous list wholesale,  *)
(* and once a selection is made (SelectSearchResult or Selected handled)   *)
(* search_results no longer holds the list of the earlier query.           *)
(***************************************************************************)
\* the step makes a selection
SelectionMade ==
    \/ Handles("Selected")
    \/ /\ inbox' = inbox
       /\ selected_opt' # selected_opt
       /\ IsSome(selected_opt')

C20_DiscardedWhenSuperseded ==
    [][/\ Handles("SearchResults") => search_results' = Some(Head(inbox).results)
       /\ (SelectionMade /\ IsSome(search_results)) =>
              search_results' # search_results]_vars

(***************************************************************************)
(* C20 as amended: handling a SearchResults message replaces the previous  *)
(* list wholesale, and a selection (SelectSearchResult or Selected         *)
(* handled) leaves search_results as it is, so it still holds the list of  *)
(* the earlier query.                                                      *)
(***************************************************************************)
C20_ReplacedByNextListOnly ==
    [][/\ Handles("SearchResults") => search_results' = Some(Head(inbox).results)
       /\ SelectionMade => search_results' = search_results]_vars

\* an entry of the list is selected and the list is still held
C20_Witness ==
    /\ IsSome(selected_opt)
    /\ IsSome(search_results)
    /\ \E i \in 1..ResultsLen :
           selected_opt = Some(SelectedOfResult(Unwrap(search_results)[i]))

(***************************************************************************)
(* C21  get_translatable gives the string of the active locale when the    *)
(* translatable has one, otherwise the default string when it has one,     *)
(* otherwise the empty string; search takes the empty string as the        *)
(* summary of a component without summary, so such a component matches by  *)
(* its name only.  (LocaleSpec: one component, the query is the text in    *)
(* the search field.)                                                      *)
(***************************************************************************)
\* the string the claim says is shown for a translatable
Localized(translatable, loc) ==
    IF loc \in DOMAIN translatable THEN translatable[loc]
    ELSE IF "default" \in DOMAIN translatable THEN translatable["default"]
    ELSE <<>>

C21_LocaleFallback ==
    \A results \in ResultLists : \A id \in DOMAIN appstream_cache :
        LET component == appstream_cache[id].components[1]
            name      == Localized(component.name, locale)
            summary   == IF IsSome(component.summary)
                         THEN Localized(Unwrap(component.summary), locale)
                         ELSE <<>>
            matches   == \/ ContainsIgnoreCase(search_input, name)
                         \/ ContainsIgnoreCase(search_input, summary)
        IN  /\ Len(results) = IF matches THEN 1 ELSE 0
            /\ \A i \in 1..Len(results) :
                   /\ results[i].name = name
                   /\ results[i].summary = summary
                   /\ component.summary = None =>
                          /\ ContainsIgnoreCase(search_input, name)
                          /\ results[i].weight <= 2

\* a result whose name fell back to the empty string (the name is translated for
\* the other locale only) and whose summary fell back to the default string
C21_Witness ==
    /\ IsSome(search_results)
    /\ Len(Unwrap(search_results)) = 1
    /\ Unwrap(search_results)[1].name = <<>>
    /\ Unwrap(search_results)[1].summary = KeyString("default")
    /\ \A id \in DOMAIN appstream_cache :
           LET component == appstream_cache[id].components[1]
           IN  /\ DOMAIN component.name # {}
               /\ locale \notin DOMAIN Unwrap(component.summary)
               /\ DOMAIN Unwrap(component.summary) # {"default"}

(***************************************************************************)
(* C22  Every potentially slow operation runs in a worker unit and never   *)
(* in a step of the coordinating thread: backend.appstream,                *)
(* backend.installed, the discovery of the backends, the scan of the       *)
(* collections and all blocking file I/O, the loading of the Metadata      *)
(* Store included, are done by dispatched workers only, never by init or   *)
(* update.                                                                 *)
(***************************************************************************)
C22_SlowWorkOnlyInWorkers == coordinator_ran = {}

(***************************************************************************)
(* C25  A selection with an index out of range is a no-op:                 *)
(* SelectInstalled(i) with i not less than the length of the installed     *)
(* list dispatches no worker, SelectSearchResult(i) with search_results    *)
(* None or i not less than its length leaves selected_opt as it is, and in *)
(* both cases no other state field changes.                                *)
(***************************************************************************)
NothingChanges ==
    /\ tasks' = tasks
    /\ inbox' = inbox
    /\ selected_opt' = selected_opt
    /\ app' = app

C25_OutOfRangeIsNoOp ==
    [][/\ \A i \in Len(installed)..(Len(installed) + 1) :
              SelectInstalledAt(i) => NothingChanges
       /\ \A i \in ResultsLen..(ResultsLen + 1) :
              SelectSearchResultAt(i) => NothingChanges]_vars

\* packages are listed, results and a selection are held, and a worker could be
\* dispatched
C25_Witness ==
    /\ installed # <<>>
    /\ \A k \in 1..Len(installed) : installed[k][1] \in backends
    /\ IsSome(search_results)
    /\ Unwrap(search_results) # <<>>
    /\ IsSome(selected_opt)
    /\ Unwrap(selected_opt).backend_name \in backends
    /\ HasRoom

(***************************************************************************)
(* C23  After SearchClear, or an escape that closes the search, has been   *)
(* processed, search_results stays None until a later SearchSubmit with a  *)
(* non-empty text has been processed, also when a search dispatched before *)
(* the clear completes after it; search_results is Some only while         *)
(* search_active is true.  (UiSpec: a text is submitted only while the     *)
(* search is active, so while it is closed the results stay None.)         *)
(***************************************************************************)
C23_ClearedStaysCleared ==
    /\ [](IsSome(search_results) => search_active)
    /\ [][(~search_active /\ search_results = None) => search_results' = None]_vars

(***************************************************************************)
(* C23 as amended: when SearchClear, or an escape that closes the search,  *)
(* is processed, search_results becomes None, and it becomes Some again    *)
(* only when a SearchResults message is processed; that message may belong *)
(* to a search dispatched before the clear, so search_results can be Some  *)
(* while search_active is false.                                           *)
(***************************************************************************)
C23_ClearedUntilNextResults ==
    [][/\ (search_active /\ ~search_active') => search_results' = None
       /\ (search_results = None /\ IsSome(search_results')) =>
              /\ Handles("SearchResults")
              /\ search_results' = Some(Head(inbox).results)]_vars

\* the search is closed, nothing is in flight or queued, and results are held
C23_Witness ==
    /\ ~search_active
    /\ IsSome(search_results)
    /\ Unwrap(search_results) # <<>>
    /\ tasks = <<>>
    /\ inbox = <<>>

(***************************************************************************)
(* C24  Start-up order and progress: the installed listing is dispatched   *)
(* only by the handling of the Backends message, so no Installed message   *)
(* is handled, or even produced, before the Backends message is handled;   *)
(* and with fair workers and a fair message loop the Backends message and  *)
(* then the Installed message are eventually handled, after which the      *)
(* registry holds the discovered backends and the installed list is their  *)
(* listing.                                                                *)
(***************************************************************************)
\* the update_installed units in flight and the Installed messages queued
InstalledUnits ==
    Cardinality({i \in 1..Len(tasks) : tasks[i].kind = "update_installed"})
    + Cardinality({k \in 1..Len(inbox) : inbox[k].type = "Installed"})

StartupDone ==
    /\ BackendsUnits = 0
    /\ InstalledUnits = 0
    /\ backends = Discovered(world)
    /\ installed \in {ListInstalled(order, world) : order \in Orders(Discovered(world))}

\* C24: no installed listing exists before the Backends message is handled, one is
\* dispatched only by that handling, and under Fairness the start-up completes
C24_StartupOrderAndProgress ==
    /\ [](BackendsUnits = 1 => InstalledUnits = 0 /\ installed = <<>>)
    /\ [][InstalledUnits' > InstalledUnits => Handles("Backends")]_vars
    /\ <>[]StartupDone

\* the start-up is over on a host with packages and nothing else has happened
C24_Witness ==
    /\ StartupDone
    /\ installed # <<>>
    /\ tasks = <<>>
    /\ inbox = <<>>
    /\ search_results = None
    /\ selected_opt = None
    /\ submitted = None

====
